---- MODULE Spec2Model ----
(***************************************************************************)
(* State-machine model of the document-store access layer of cfc-api:      *)
(* the MongoManager registry of per-database handles                       *)
(* (src/utils/data/mongo.py), the identifier translation between the       *)
(* store's ObjectId and the API's string id, and the five record access    *)
(* operations with their error wrapping; and of the OAuth routers built    *)
(* on it (src/routes/auth): the callbacks, the session records and the     *)
(* session check of GET /api/auth/me.                                      *)
(***************************************************************************)
EXTENDS Integers, Sequences, FiniteSets, TLC

(***************************************************************************)
(* Bounds of the model.                                                    *)
(***************************************************************************)
\* Handles (MongoManager instances) ever created.
MaxHandles == 3
\* Identifiers the store generates (ObjectId() with no argument).
MaxGen == 1
\* Cooperative tasks that construct a MongoManager.
NumTasks == 3
\* Days the clock advances.
MaxTime == 2
\* Hex digits of an external identifier (24 in bson; scaled down).
OidHexLen == 2

(***************************************************************************)
(* Status codes of the HTTPExceptions the manager raises.                  *)
(***************************************************************************)
StatusNotFound == 404
StatusStoreFailure == 500
\* And of those the OAuth routers raise.
StatusBadRequest == 400
StatusUnauthorized == 401

(***************************************************************************)
(* Names.                                                                  *)
(***************************************************************************)
DbNames == {"auth_db", "posts_db"}
CollNames == {"posts", "users", "sessions"}
\* Python's None for _database, and 0 for a _client that is None.
NoneDb == "None"
NoneClient == 0

(***************************************************************************)
(* Identifier translation.  An external identifier is a string, modelled   *)
(* as a sequence of characters; an internal identifier (ObjectId) is the   *)
(* sequence of the values of its hex digits.                               *)
(***************************************************************************)
HexLower == <<"0","1","2","3","4","5","6","7","8","9","a","b","c","d","e","f">>
HexUpper == <<"0","1","2","3","4","5","6","7","8","9","A","B","C","D","E","F">>

IsHex(ch) == \E n \in 1..16 : HexLower[n] = ch \/ HexUpper[n] = ch

HexVal(ch) == (CHOOSE n \in 1..16 : HexLower[n] = ch \/ HexUpper[n] = ch) - 1

\* bson.ObjectId.is_valid for a str: the right length, hex digits only.
ValidOid(s) == Len(s) = OidHexLen /\ \A i \in 1..Len(s) : IsHex(s[i])

\* ObjectId(s) for a valid string s: bytes.fromhex(s).
ObjectId(s) == [i \in 1..Len(s) |-> HexVal(s[i])]

\* A mutant of StrOid: the hex digits come out in upper case.
StrOidUpper(oid) == [i \in 1..Len(oid) |-> HexUpper[oid[i] + 1]]

\* str(oid): binascii.hexlify, always lower case.
StrOid(oid) == [i \in 1..Len(oid) |-> HexLower[oid[i] + 1]]

\* A mutant of GenerateOid: the generator yields an identifier callers use.
GenerateOidInUse(k) == [i \in 1..OidHexLen |-> 10]

\* ObjectId() with no argument: a fixed prefix followed by a counter.
GenerateOid(k) == [i \in 1..OidHexLen |-> IF i = OidHexLen THEN k ELSE 15]

(***************************************************************************)
(* Documents: functions from field names to values.                        *)
(***************************************************************************)
Without(d, k) == [f \in DOMAIN d \ {k} |-> d[f]]

With(d, k, v) == [f \in DOMAIN d \cup {k} |-> IF f = k THEN v ELSE d[f]]

\* A mutant of ToExternal: the _id is copied, not popped.
ToExternalKeepsInternal(doc) == With(doc, "id", StrOid(doc["_id"]))

\* doc['id'] = str(doc.pop('_id'))
ToExternal(doc) == With(Without(doc, "_id"), "id", StrOid(doc["_id"]))

VARIABLES
  mongodb_uri,   \* whether MONGODB_URI is set in the environment
  instances,     \* MongoManager._instances: database name -> handle
  handles,       \* every MongoManager object created: its three fields
  clients,       \* every AsyncIOMotorClient created: database, open or closed
  collSeq,       \* collection objects created so far
  store,         \* the database server: <<database, collection>> -> documents
  oidCounter,    \* identifiers generated so far
  deleted,       \* history: identifiers deleted and not created again since
  last,          \* the last call: operation, arguments and outcome
  tasks,         \* cooperative tasks: where each is and the handle it holds
  now            \* datetime.utcnow(), in ticks

vars ==
  <<mongodb_uri, instances, handles, clients, collSeq, store, oidCounter,
    deleted, last, tasks, now>>

\* The variables the manager's own methods never touch.
callerVars == <<tasks, now>>

Handles == 1..Len(handles)

Live(h) == handles[h].client # NoneClient

EmptyDict == [x \in {} |-> x]

\* The outcome of a call that has not failed and returned nothing of note.
Call(op, h) ==
  [op |-> op, h |-> h, name |-> "", coll |-> "", id |-> {}, doc |-> {},
   ok |-> TRUE, exc |-> "", status |-> 0, detail |-> <<>>,
   returned |-> "", result |-> {}, hit |-> FALSE, cookie |-> {}]

\* A call that ended by raising a Python exception other than HTTPException.
Raised(call, exc, msg) ==
  [call EXCEPT !.ok = FALSE, !.exc = exc, !.detail = <<msg>>]

(***************************************************************************)
(* The registry: MongoManager.__new__, _initialize_connection, close.      *)
(***************************************************************************)
NotInitializedMsg == "MongoDB database not initialized"
ClientNotInitializedMsg == "MongoDB client not initialized"
UriNotSetMsg == "MONGODB_URI environment variable not set"

\* A mutant of RegistryMiss: every construction makes a new instance.
RegistryMissAlways(name) == TRUE

\* `database_name not in cls._instances`
RegistryMiss(name) == name \notin DOMAIN instances

\* _initialize_connection on the new instance: one client, its database.
InitializeConnection(name) ==
  /\ clients' = Append(clients, [db |-> name, open |-> TRUE])
  /\ handles' = Append(handles, [client |-> Len(clients) + 1,
                                 database |-> name,
                                 collections |-> EmptyDict])

\* A mutant of New: the instance is registered before its connection is
\* initialized, so a failed initialization leaves it in the registry.
NewRegistersFirst(name) ==
  IF RegistryMiss(name)
  THEN /\ Len(handles) < MaxHandles
       /\ instances' = With(instances, name, Len(handles) + 1)
       /\ IF ~mongodb_uri
          THEN /\ handles' = Append(handles, [client |-> NoneClient,
                                              database |-> NoneDb,
                                              collections |-> EmptyDict])
               /\ clients' = clients
               /\ last' = Raised([Call("new", 0) EXCEPT !.name = name],
                                 "ValueError", UriNotSetMsg)
          ELSE /\ InitializeConnection(name)
               /\ last' = [Call("new", Len(handles) + 1) EXCEPT !.name = name]
       /\ UNCHANGED <<mongodb_uri, collSeq, store, oidCounter, deleted>>
  ELSE /\ last' = [Call("new", instances[name]) EXCEPT !.name = name,
                                                       !.hit = TRUE]
       /\ UNCHANGED <<mongodb_uri, instances, handles, clients, collSeq,
                      store, oidCounter, deleted>>

\* MongoManager(name)
New(name) ==
  IF RegistryMiss(name)
  THEN IF ~mongodb_uri
       THEN /\ last' = Raised([Call("new", 0) EXCEPT !.name = name],
                              "ValueError", UriNotSetMsg)
            /\ UNCHANGED <<mongodb_uri, instances, handles, clients, collSeq,
                           store, oidCounter, deleted>>
       ELSE /\ Len(handles) < MaxHandles
            /\ InitializeConnection(name)
            /\ instances' = With(instances, name, Len(handles) + 1)
            /\ last' = [Call("new", Len(handles) + 1) EXCEPT !.name = name]
            /\ UNCHANGED <<mongodb_uri, collSeq, store, oidCounter, deleted>>
  ELSE /\ last' = [Call("new", instances[name]) EXCEPT !.name = name,
                                                       !.hit = TRUE]
       /\ UNCHANGED <<mongodb_uri, instances, handles, clients, collSeq,
                      store, oidCounter, deleted>>

\* A mutant of Evict: close() leaves the registry entry in place.
EvictNothing(h) == instances

\* A mutant of Evict: close() deletes an entry of the registry without
\* looking for its own.
EvictSomeEntry(h) ==
  IF instances = EmptyDict
  THEN instances
  ELSE Without(instances, CHOOSE k \in DOMAIN instances : TRUE)

\* The registry without the entry of handle h, if it has one.
Evict(h) ==
  IF \E k \in DOMAIN instances : instances[k] = h
  THEN Without(instances, CHOOSE k \in DOMAIN instances : instances[k] = h)
  ELSE instances

\* A mutant of Cleared: close() forgets `self._collections = {}`.
ClearedKeepsCollections(h) ==
  [handles[h] EXCEPT !.client = NoneClient, !.database = NoneDb]

\* The fields of handle h after close() has cleared them.
Cleared(h) ==
  [client |-> NoneClient, database |-> NoneDb, collections |-> EmptyDict]

\* handle.close()
Close(h) ==
  /\ h \in Handles
  /\ IF Live(h)
     THEN /\ clients' = [clients EXCEPT ![handles[h].client].open = FALSE]
          /\ handles' = [handles EXCEPT ![h] = Cleared(h)]
          /\ instances' = Evict(h)
     ELSE UNCHANGED <<instances, handles, clients>>
  /\ last' = Call("close", h)
  /\ UNCHANGED <<mongodb_uri, collSeq, store, oidCounter, deleted>>

\* get_collection raises: the name is not cached and there is no database.
GetCollectionRaises(h, c) ==
  /\ c \notin DOMAIN handles[h].collections
  /\ handles[h].database = NoneDb

\* A mutant of CachedCollections: no test of the cache, every call asks the
\* database for a new collection object.
CachedCollectionsAlwaysNew(h, c) ==
  [handles EXCEPT ![h].collections =
     With(@, c, [db |-> handles[h].database, name |-> c,
                 obj |-> collSeq + 1])]

\* The handles after get_collection(c) on handle h that did not raise.
CachedCollections(h, c) ==
  IF c \in DOMAIN handles[h].collections
  THEN handles
  ELSE [handles EXCEPT ![h].collections =
          With(@, c, [db |-> handles[h].database, name |-> c,
                      obj |-> collSeq + 1])]

CollSeqAfter(h, c) ==
  IF c \in DOMAIN handles[h].collections THEN collSeq ELSE collSeq + 1

\* The effect of self.get_collection(c) inside a call that did not raise.
UseCollection(h, c) ==
  /\ handles' = CachedCollections(h, c)
  /\ collSeq' = CollSeqAfter(h, c)

\* The store's collection a collection object of handle h stands for.
StoreKey(h, c) == <<CachedCollections(h, c)[h].collections[c].db, c>>

\* handle.get_collection(c)
GetCollection(h, c) ==
  /\ h \in Handles
  /\ IF GetCollectionRaises(h, c)
     THEN /\ last' = Raised([Call("get_collection", h) EXCEPT !.coll = c],
                            "ValueError", NotInitializedMsg)
          /\ UNCHANGED <<handles, collSeq>>
     ELSE /\ UseCollection(h, c)
          /\ last' = [Call("get_collection", h) EXCEPT
                        !.coll = c,
                        !.result = {CachedCollections(h, c)[h].collections[c]}]
  /\ UNCHANGED <<mongodb_uri, instances, clients, store, oidCounter, deleted>>

\* handle.client
ClientProperty(h) ==
  /\ h \in Handles
  /\ last' = IF handles[h].client = NoneClient
             THEN Raised(Call("client", h), "ValueError", ClientNotInitializedMsg)
             ELSE Call("client", h)
  /\ UNCHANGED <<mongodb_uri, instances, handles, clients, collSeq, store,
                 oidCounter, deleted>>

\* handle.database
DatabaseProperty(h) ==
  /\ h \in Handles
  /\ last' = IF handles[h].database = NoneDb
             THEN Raised(Call("database", h), "ValueError", NotInitializedMsg)
             ELSE Call("database", h)
  /\ UNCHANGED <<mongodb_uri, instances, handles, clients, collSeq, store,
                 oidCounter, deleted>>

(***************************************************************************)
(* The database server, as the manager's calls see it.                     *)
(***************************************************************************)
\* collection.find_one({"_id": oid}): the document, or nothing.
FindOne(docs, oid) == {d \in docs : d["_id"] = oid}

\* A mutant of Find: the filter is not passed on to the collection.
FindIgnoresFilter(docs, filter) == docs

\* collection.find(filter_query or {}): every field-equality constraint
\* holds; an absent filter (None) and an empty one are both {}.
Find(docs, filter) ==
  {d \in docs : \A f \in DOMAIN filter : f \in DOMAIN d /\ d[f] = filter[f]}

\* A mutant of SetFields: the update replaces the document, keeping its _id.
SetFieldsReplaces(d, update_data) ==
  [f \in {"_id"} \cup DOMAIN update_data |->
     IF f \in DOMAIN update_data THEN update_data[f] ELSE d[f]]

\* {"$set": update_data} applied to a stored document.
SetFields(d, update_data) ==
  [f \in DOMAIN d \cup DOMAIN update_data |->
     IF f \in DOMAIN update_data THEN update_data[f] ELSE d[f]]

\* collection.update_one({"_id": oid}, {"$set": update_data}): the documents.
UpdateOne(docs, oid, update_data) ==
  {IF d["_id"] = oid THEN SetFields(d, update_data) ELSE d : d \in docs}

\* result.modified_count: a matched document that the update changed.
ModifiedCount(docs, oid, update_data) ==
  Cardinality({d \in FindOne(docs, oid) : SetFields(d, update_data) # d})

\* collection.delete_one({"_id": oid}): the documents left.
DeleteOne(docs, oid) == docs \ FindOne(docs, oid)

\* result.deleted_count
DeletedCount(docs, oid) == Cardinality(FindOne(docs, oid))

(***************************************************************************)
(* Exceptions raised inside the record access operations, and the          *)
(* `except Exception` clause that ends each of them.                       *)
(***************************************************************************)
ExcNotFound ==
  [type |-> "HTTPException", status |-> StatusNotFound,
   str |-> "404: Document not found"]
ExcInvalidId ==
  [type |-> "InvalidId", status |-> 0, str |-> "not a valid ObjectId"]
ExcDuplicateKey ==
  [type |-> "DuplicateKeyError", status |-> 0,
   str |-> "E11000 duplicate key error"]
ExcNotInitialized ==
  [type |-> "ValueError", status |-> 0, str |-> NotInitializedMsg]

\* A fault of the database server or of the connection to it, as the driver
\* raises it; its text is the driver's own.
ExcStoreFault(text) == [type |-> "PyMongoError", status |-> 0, str |-> text]

\* A mutant of CatchException: no except clause, the exception propagates.
CatchNothing(call, prefix, e) ==
  [call EXCEPT !.ok = FALSE, !.exc = e.type, !.status = e.status,
               !.detail = <<e.str>>]

\* except Exception as e: raise HTTPException(500, f"{prefix}: {str(e)}")
\* HTTPException is an Exception: the clause catches the 404 too.
CatchException(call, prefix, e) ==
  [call EXCEPT !.ok = FALSE, !.exc = "HTTPException",
               !.status = StatusStoreFailure, !.detail = <<prefix, e.str>>]

Returned(call, kind, docs) == [call EXCEPT !.returned = kind, !.result = docs]

(***************************************************************************)
(* The five record access operations.                                      *)
(***************************************************************************)
RecordOps == {"get_all", "get_by_id", "create", "update", "delete"}

\* self.get_collection(c) as the first statement of an operation's try.
TryCollection(h, c) ==
  IF GetCollectionRaises(h, c)
  THEN UNCHANGED <<handles, collSeq>>
  ELSE UseCollection(h, c)

\* handle.get_all_documents(c, filter)
GetAllDocuments(h, c, filter) ==
  LET call == [Call("get_all", h) EXCEPT !.coll = c, !.doc = {filter}]
  IN /\ h \in Handles
     /\ TryCollection(h, c)
     /\ last' =
          IF GetCollectionRaises(h, c)
          THEN CatchException(call, "Failed to fetch documents",
                              ExcNotInitialized)
          ELSE Returned(call, "documents",
                 {ToExternal(d) : d \in Find(store[StoreKey(h, c)], filter)})
     /\ UNCHANGED <<mongodb_uri, instances, clients, store, oidCounter, deleted>>

\* What handle.get_document_by_id(c, id) returns or raises.
GetByIdOutcome(h, c, id) ==
  LET call == [Call("get_by_id", h) EXCEPT !.coll = c, !.id = {id}]
      prefix == "Failed to fetch document"
  IN IF GetCollectionRaises(h, c)
     THEN CatchException(call, prefix, ExcNotInitialized)
     ELSE IF ~ValidOid(id)
     THEN CatchException(call, prefix, ExcInvalidId)
     ELSE LET found == FindOne(store[StoreKey(h, c)], ObjectId(id))
          IN IF found = {}
             THEN CatchException(call, prefix, ExcNotFound)
             ELSE Returned(call, "document", {ToExternal(d) : d \in found})

\* handle.get_document_by_id(c, id)
GetDocumentById(h, c, id) ==
  /\ h \in Handles
  /\ TryCollection(h, c)
  /\ last' = GetByIdOutcome(h, c, id)
  /\ UNCHANGED <<mongodb_uri, instances, clients, store, oidCounter, deleted>>

\* handle.create_document(c, doc)
CreateDocument(h, c, doc) ==
  LET call == [Call("create", h) EXCEPT !.coll = c, !.doc = {doc}]
      prefix == "Failed to create document"
      generated == "id" \notin DOMAIN doc
      oid == IF generated THEN GenerateOid(oidCounter) ELSE ObjectId(doc["id"])
      stored == With(Without(doc, "id"), "_id", oid)
  IN /\ h \in Handles
     /\ TryCollection(h, c)
     /\ IF GetCollectionRaises(h, c)
        THEN /\ last' = CatchException(call, prefix, ExcNotInitialized)
             /\ UNCHANGED <<store, oidCounter, deleted>>
        ELSE IF ~generated /\ ~ValidOid(doc["id"])
        THEN /\ last' = CatchException(call, prefix, ExcInvalidId)
             /\ UNCHANGED <<store, oidCounter, deleted>>
        ELSE /\ generated => oidCounter < MaxGen
             /\ oidCounter' = IF generated THEN oidCounter + 1 ELSE oidCounter
             /\ IF FindOne(store[StoreKey(h, c)], oid) # {}
                THEN /\ last' = CatchException(call, prefix, ExcDuplicateKey)
                     /\ UNCHANGED <<store, deleted>>
                ELSE /\ store' = [store EXCEPT ![StoreKey(h, c)] =
                                    @ \cup {stored}]
                     /\ deleted' = deleted \ {<<StoreKey(h, c), oid>>}
                     /\ last' = Returned(call, "document",
                          {ToExternal(d) :
                             d \in FindOne(store'[StoreKey(h, c)], oid)})
     /\ UNCHANGED <<mongodb_uri, instances, clients>>

\* A mutant of UpdateData: the id is translated as create does, not dropped.
UpdateDataTranslatesId(doc) ==
  IF "id" \in DOMAIN doc /\ ValidOid(doc["id"])
  THEN With(Without(doc, "id"), "_id", ObjectId(doc["id"]))
  ELSE Without(doc, "id")

\* update_data = {k: v for k, v in document_data.items() if k != 'id'}
UpdateData(doc) == Without(doc, "id")

\* handle.update_document(c, id, doc)
UpdateDocument(h, c, id, doc) ==
  LET call == [Call("update", h) EXCEPT !.coll = c, !.id = {id}, !.doc = {doc}]
      prefix == "Failed to update document"
      update_data == UpdateData(doc)
  IN /\ h \in Handles
     /\ TryCollection(h, c)
     /\ IF GetCollectionRaises(h, c)
        THEN /\ last' = CatchException(call, prefix, ExcNotInitialized)
             /\ UNCHANGED store
        ELSE IF ~ValidOid(id)
        THEN /\ last' = CatchException(call, prefix, ExcInvalidId)
             /\ UNCHANGED store
        ELSE LET docs == store[StoreKey(h, c)]
                 oid == ObjectId(id)
             IN /\ store' = [store EXCEPT ![StoreKey(h, c)] =
                               UpdateOne(docs, oid, update_data)]
                /\ last' =
                     IF ModifiedCount(docs, oid, update_data) = 0
                     THEN CatchException(call, prefix, ExcNotFound)
                     ELSE Returned(call, "document",
                            {ToExternal(d) :
                               d \in FindOne(store'[StoreKey(h, c)], oid)})
     /\ UNCHANGED <<mongodb_uri, instances, clients, oidCounter, deleted>>

\* handle.delete_document(c, id)
DeleteDocument(h, c, id) ==
  LET call == [Call("delete", h) EXCEPT !.coll = c, !.id = {id}]
      prefix == "Failed to delete document"
  IN /\ h \in Handles
     /\ TryCollection(h, c)
     /\ IF GetCollectionRaises(h, c)
        THEN /\ last' = CatchException(call, prefix, ExcNotInitialized)
             /\ UNCHANGED <<store, deleted>>
        ELSE IF ~ValidOid(id)
        THEN /\ last' = CatchException(call, prefix, ExcInvalidId)
             /\ UNCHANGED <<store, deleted>>
        ELSE LET docs == store[StoreKey(h, c)]
                 oid == ObjectId(id)
             IN /\ store' = [store EXCEPT ![StoreKey(h, c)] =
                               DeleteOne(docs, oid)]
                /\ IF DeletedCount(docs, oid) = 0
                   THEN /\ last' = CatchException(call, prefix, ExcNotFound)
                        /\ UNCHANGED deleted
                   ELSE /\ last' = Returned(call, "true", {})
                        /\ deleted' = deleted \cup {<<StoreKey(h, c), oid>>}
     /\ UNCHANGED <<mongodb_uri, instances, clients, oidCounter>>

(***************************************************************************)
(* Inputs.                                                                 *)
(***************************************************************************)
Rep(ch) == [i \in 1..OidHexLen |-> ch]

\* Identifiers the store has generated, in external form.
GeneratedIds == {StrOid(GenerateOid(k)) : k \in 0..(oidCounter - 1)}

\* Identifier strings callers pass: lower case, upper case, one that is not
\* hexadecimal, one that is too short, and those the store generated.
IdInputs ==
  {Rep("a"), Rep("A"), Rep("z"), [i \in 1..(OidHexLen - 1) |-> "a"]}
    \cup GeneratedIds

FieldInputs ==
  {[title |-> "A"], [title |-> "B"], [title |-> "A", type |-> "note"]}

\* Documents to create, with and without a caller-assigned id.
DocInputs ==
  FieldInputs \cup
  {With(d, "id", i) : d \in {[title |-> "A"], [title |-> "B", type |-> "note"]},
                      i \in IdInputs}

\* Partial documents to update with, some carrying an id of their own.
UpdateInputs ==
  {[title |-> "A"], [title |-> "B"], [type |-> "note"]} \cup
  {With([title |-> "B"], "id", i) : i \in {Rep("a")} \cup GeneratedIds}

FilterInputs ==
  {EmptyDict, [type |-> "note"], [title |-> "A", type |-> "note"]}

(***************************************************************************)
(* Spec: the registry's life cycle over several database names, with the   *)
(* record access operations called on live and on evicted handles.         *)
(***************************************************************************)
Init ==
  /\ mongodb_uri \in BOOLEAN
  /\ instances = EmptyDict
  /\ handles = <<>>
  /\ clients = <<>>
  /\ collSeq = 0
  /\ store = [k \in DbNames \X CollNames |-> {}]
  /\ oidCounter = 0
  /\ deleted = {}
  /\ last = Call("none", 0)
  /\ tasks = <<>>
  /\ now = 0

Next ==
  \/ \E name \in DbNames : New(name) /\ UNCHANGED callerVars
  \/ \E h \in Handles : Close(h) /\ UNCHANGED callerVars
  \/ \E h \in Handles : GetCollection(h, "posts") /\ UNCHANGED callerVars
  \/ \E h \in Handles : ClientProperty(h) /\ UNCHANGED callerVars
  \/ \E h \in Handles : DatabaseProperty(h) /\ UNCHANGED callerVars
  \/ \E h \in Handles :
       GetAllDocuments(h, "posts", EmptyDict) /\ UNCHANGED callerVars
  \/ \E h \in Handles :
       GetDocumentById(h, "posts", Rep("a")) /\ UNCHANGED callerVars
  \/ \E h \in Handles :
       CreateDocument(h, "posts", [id |-> Rep("a"), title |-> "A"])
         /\ UNCHANGED callerVars
  \/ \E h \in Handles :
       UpdateDocument(h, "posts", Rep("a"), [title |-> "A"])
         /\ UNCHANGED callerVars
  \/ \E h \in Handles :
       DeleteDocument(h, "posts", Rep("1")) /\ UNCHANGED callerVars

Spec == Init /\ [][Next]_vars

(***************************************************************************)
(* SpecStore: the record access operations on the live handle of           *)
(* "posts_db", as DataRouter holds it, over a range of documents.          *)
(***************************************************************************)
InitStore ==
  /\ mongodb_uri = TRUE
  /\ instances = [n \in {"posts_db"} |-> 1]
  /\ handles = <<[client |-> 1, database |-> "posts_db",
                  collections |-> EmptyDict]>>
  /\ clients = <<[db |-> "posts_db", open |-> TRUE]>>
  /\ collSeq = 0
  /\ store = [k \in DbNames \X CollNames |-> {}]
  /\ oidCounter = 0
  /\ deleted = {}
  /\ last = [Call("new", 1) EXCEPT !.name = "posts_db"]
  /\ tasks = <<>>
  /\ now = 0

NextStore ==
  \/ \E f \in FilterInputs :
       GetAllDocuments(1, "posts", f) /\ UNCHANGED callerVars
  \/ \E i \in IdInputs :
       GetDocumentById(1, "posts", i) /\ UNCHANGED callerVars
  \/ \E d \in DocInputs :
       CreateDocument(1, "posts", d) /\ UNCHANGED callerVars
  \/ \E i \in IdInputs, d \in UpdateInputs :
       UpdateDocument(1, "posts", i, d) /\ UNCHANGED callerVars
  \/ \E i \in IdInputs :
       DeleteDocument(1, "posts", i) /\ UNCHANGED callerVars

SpecStore == InitStore /\ [][NextStore]_vars

(***************************************************************************)
(* SpecFault: the record access operations of SpecStore with a database    *)
(* server that can fail and a handle that the application closes           *)
(* (core/app.py cleanup) while callers still use it.                       *)
(***************************************************************************)
\* The driver's descriptions of one and the same fault, an unreachable server.
NativeErrors ==
  {"db0.internal:27017: [Errno 111] Connection refused",
   "db0.internal:27017: timed out"}

\* The text each operation puts before the exception's in its detail.
FailurePrefix ==
  [get_all |-> "Failed to fetch documents",
   get_by_id |-> "Failed to fetch document",
   create |-> "Failed to create document",
   update |-> "Failed to update document",
   delete |-> "Failed to delete document"]

\* Operation op on collection c of handle h when the awaited driver call
\* raises: the except clause of the operation wraps the driver's exception.
\* The server is not reached, so the collection is as before.
StoreFault(h, c, op, text) ==
  /\ h \in Handles
  /\ ~GetCollectionRaises(h, c)
  /\ UseCollection(h, c)
  /\ last' = CatchException([Call(op, h) EXCEPT !.coll = c],
                            FailurePrefix[op], ExcStoreFault(text))
  /\ UNCHANGED <<mongodb_uri, instances, clients, store, oidCounter, deleted>>

NextFault ==
  \/ NextStore
  \/ Close(1) /\ UNCHANGED callerVars
  \/ \E op \in RecordOps, text \in NativeErrors :
       StoreFault(1, "posts", op, text) /\ UNCHANGED callerVars

SpecFault == InitStore /\ [][NextFault]_vars

(***************************************************************************)
(* SpecTasks: cooperative tasks of one event loop that each construct      *)
(* MongoManager(name), as the routers do for "auth_db", with __new__       *)
(* taken statement by statement.                                           *)
(***************************************************************************)
Tasks == 1..NumTasks

NoHandle == 0

\* A mutant of InNew: the event loop may switch tasks inside __new__.
InNewNever(t) == FALSE

\* Task t is inside __new__, past the registry test and before the
\* registration.  __new__ and _initialize_connection contain no await.
InNew(t) == tasks[t].pc = "init"

\* The event loop can run task t: no other task is inside synchronous code.
Scheduled(t) == \A u \in Tasks \ {t} : ~InNew(u)

\* Task t reaches its call MongoManager(name).
TaskCall(t, name) ==
  /\ Scheduled(t)
  /\ tasks[t].pc = "idle"
  /\ tasks' = [tasks EXCEPT ![t] = [pc |-> "new", name |-> name,
                                     h |-> NoHandle,
                                     early |-> RegistryMiss(name)]]
  /\ UNCHANGED <<mongodb_uri, instances, handles, clients, collSeq, store,
                 oidCounter, deleted, last, now>>

\* `if database_name not in cls._instances:` and, on a hit, the return.
TaskCheck(t) ==
  /\ Scheduled(t)
  /\ tasks[t].pc = "new"
  /\ IF RegistryMiss(tasks[t].name)
     THEN /\ tasks' = [tasks EXCEPT ![t].pc = "init"]
          /\ UNCHANGED last
     ELSE /\ tasks' = [tasks EXCEPT ![t].pc = "done",
                                     ![t].h = instances[tasks[t].name]]
          /\ last' = [Call("new", instances[tasks[t].name]) EXCEPT
                        !.name = tasks[t].name, !.hit = TRUE]
  /\ UNCHANGED <<mongodb_uri, instances, handles, clients, collSeq, store,
                 oidCounter, deleted, now>>

\* The body of the if: the instance, its connection, the registration and
\* the return; or the ValueError of _initialize_connection.
TaskInit(t) ==
  LET name == tasks[t].name
  IN /\ Scheduled(t)
     /\ tasks[t].pc = "init"
     /\ IF ~mongodb_uri
        THEN /\ tasks' = [tasks EXCEPT ![t].pc = "failed"]
             /\ last' = Raised([Call("new", 0) EXCEPT !.name = name],
                               "ValueError", UriNotSetMsg)
             /\ UNCHANGED <<instances, handles, clients>>
        ELSE /\ Len(handles) < MaxHandles
             /\ InitializeConnection(name)
             /\ instances' = With(instances, name, Len(handles) + 1)
             /\ tasks' = [tasks EXCEPT ![t].pc = "done",
                                        ![t].h = Len(handles) + 1]
             /\ last' = [Call("new", Len(handles) + 1) EXCEPT !.name = name]
     /\ UNCHANGED <<mongodb_uri, collSeq, store, oidCounter, deleted, now>>

InitTasks ==
  /\ mongodb_uri \in BOOLEAN
  /\ instances = EmptyDict
  /\ handles = <<>>
  /\ clients = <<>>
  /\ collSeq = 0
  /\ store = [k \in DbNames \X CollNames |-> {}]
  /\ oidCounter = 0
  /\ deleted = {}
  /\ last = Call("none", 0)
  /\ tasks = [t \in Tasks |-> [pc |-> "idle", name |-> "", h |-> NoHandle,
                                early |-> FALSE]]
  /\ now = 0

NextTasks ==
  \/ \E t \in Tasks, name \in DbNames : TaskCall(t, name)
  \/ \E t \in Tasks : TaskCheck(t)
  \/ \E t \in Tasks : TaskInit(t)

SpecTasks == InitTasks /\ [][NextTasks]_vars

(***************************************************************************)
(* The OAuth routers (src/routes/auth): identifiers and models.            *)
(* The routers identify users and sessions by UUID; the manager stores     *)
(* documents under ObjectIds.  A UUID has 32 hex digits against the 24 of  *)
(* an ObjectId, and its string form has dashes.                            *)
(***************************************************************************)
UuidHexLen == OidHexLen + 1

\* str(uuid): the hex digits with a dash among them.
UuidStr(ch) == [i \in 1..(UuidHexLen + 1) |-> IF i = 2 THEN "-" ELSE ch]

NotDash(ch) == ch # "-"

\* UUID(s) accepts s: without its dashes it is UuidHexLen hex digits.
ValidUuid(s) ==
  LET digits == SelectSeq(s, NotDash)
  IN /\ Len(digits) = UuidHexLen
     /\ \A i \in 1..Len(digits) : IsHex(digits[i])

\* User(**doc) validates: the required fields are there and id is a UUID.
ValidUser(doc) ==
  /\ {"id", "username", "created_at", "updated_at"} \subseteq DOMAIN doc
  /\ ValidUuid(doc["id"])

\* Session(**doc) validates.
ValidSession(doc) ==
  /\ {"id", "user_id", "access_token", "expires_at"} \subseteq DOMAIN doc
  /\ ValidUuid(doc["id"])
  /\ ValidUuid(doc["user_id"])

\* timedelta(days=1): the life of a session and of its token, in days.
SessionDays == 1

\* _generate_jwt(user_id) at time t: the claims of the signed token.
GenerateJwt(user_id, t) ==
  [kind |-> "jwt", sub |-> user_id, exp |-> t + SessionDays]

(***************************************************************************)
(* The manager's create and update as functions of a collection's          *)
(* documents, for handlers that call several operations in a row.  The     *)
(* handle is live.                                                         *)
(***************************************************************************)
\* create_document on a collection holding docs, with k identifiers
\* generated so far: whether it returned, the documents afterwards, the
\* document returned or the exception caught.
CreateOutcome(docs, doc, k) ==
  LET generated == "id" \notin DOMAIN doc
      oid == IF generated THEN GenerateOid(k) ELSE ObjectId(doc["id"])
      stored == With(Without(doc, "id"), "_id", oid)
      k2 == IF generated THEN k + 1 ELSE k
  IN IF ~generated /\ ~ValidOid(doc["id"])
     THEN [ok |-> FALSE, e |-> ExcInvalidId, docs |-> docs, k |-> k]
     ELSE IF FindOne(docs, oid) # {}
     THEN [ok |-> FALSE, e |-> ExcDuplicateKey, docs |-> docs, k |-> k2]
     ELSE [ok |-> TRUE, doc |-> ToExternal(stored),
           docs |-> docs \cup {stored}, k |-> k2]

\* update_document on a collection holding docs.
UpdateOutcome(docs, id, doc) ==
  IF ~ValidOid(id)
  THEN [ok |-> FALSE, e |-> ExcInvalidId, docs |-> docs]
  ELSE IF ModifiedCount(docs, ObjectId(id), UpdateData(doc)) = 0
  THEN [ok |-> FALSE, e |-> ExcNotFound, docs |-> docs]
  ELSE LET after == UpdateOne(docs, ObjectId(id), UpdateData(doc))
       IN [ok |-> TRUE, docs |-> after,
           doc |-> ToExternal(CHOOSE d \in FindOne(after, ObjectId(id)) : TRUE)]

\* The handles and the collection counter after get_collection(c) on the
\* live handle h, given as and returned as a record.
Cache1(st, h, c) ==
  IF c \in DOMAIN st.handles[h].collections
  THEN st
  ELSE [handles |-> [st.handles EXCEPT ![h].collections =
                       With(@, c, [db |-> st.handles[h].database, name |-> c,
                                   obj |-> st.collSeq + 1])],
        collSeq |-> st.collSeq + 1]

\* The same after get_collection on each name of the sequence cs in turn.
RECURSIVE CacheSeq(_, _, _)
CacheSeq(st, h, cs) ==
  IF cs = <<>> THEN st ELSE CacheSeq(Cache1(st, h, Head(cs)), h, Tail(cs))

(***************************************************************************)
(* The OAuth callbacks.  A callback runs as one step: the exchange with    *)
(* the provider, _upsert_user, _create_session, the cookie, the response.  *)
(***************************************************************************)
\* raise HTTPException(status_code=status, detail=msg)
HttpError(call, status, msg) ==
  [call EXCEPT !.ok = FALSE, !.exc = "HTTPException", !.status = status,
               !.detail = <<msg>>]

\* What the provider does with a callback's requests: the token exchange
\* fails, answers without a token, the profile request fails, or all is
\* answered.
ProviderCases == {"token_error", "no_token", "profile_error", "ok"}

HttpxErrorMsg == "httpx.HTTPStatusError"
NoTokenMsg == "Failed to get access token"
BadUuidMsg == "badly formed hexadecimal UUID string"
ValidationMsg == "pydantic.ValidationError"

\* The profile and the token the provider answers with.
DiscordProfile ==
  [id |-> "d1", username |-> "ann", email |-> "ann@example.org",
   avatar |-> "a1"]
GithubProfile ==
  [id |-> 7, login |-> "ann", email |-> "ann@example.org",
   avatar_url |-> "a1"]
AccessToken == "provider-token"

\* The values uuid4() may return, as strings.
Uuid4Values == {UuidStr("b"), UuidStr("c")}

\* The state a handler's steps pass on: whether it goes on, the response
\* so far, the two collections, the identifiers generated, the collections
\* asked of the handle.
Flow(ok, call, users, sessions, k, used) ==
  [ok |-> ok, call |-> call, users |-> users, sessions |-> sessions,
   k |-> k, used |-> used, user |-> EmptyDict]

\* The user a step found, made or updated: the manager's failure is the
\* response, and so is a document that User(**doc) rejects.
UserStep(f, prefix, out) ==
  IF ~out.ok
  THEN [f EXCEPT !.ok = FALSE, !.users = out.docs,
                 !.call = CatchException(f.call, prefix, out.e)]
  ELSE IF ~ValidUser(out.doc)
  THEN [f EXCEPT !.ok = FALSE, !.users = out.docs,
                 !.call = Raised(f.call, "ValidationError", ValidationMsg)]
  ELSE [f EXCEPT !.users = out.docs, !.user = out.doc]

\* DiscordAuthRouter._upsert_user at time t, uuid4() returning uid.
DiscordUpsertUser(f, uid, t) ==
  LET existing == {u \in f.users : "discord_id" \in DOMAIN u /\
                                     u["discord_id"] = DiscordProfile.id}
      g == [f EXCEPT !.used = Append(@, "users")]
  IN IF existing # {}
     THEN LET user_id == StrOid((CHOOSE u \in existing : TRUE)["_id"])
          IN IF ~ValidUuid(user_id)
             THEN [g EXCEPT !.ok = FALSE,
                            !.call = Raised(g.call, "ValueError", BadUuidMsg)]
             ELSE UserStep(g, "Failed to update document",
                    UpdateOutcome(g.users, user_id,
                      [username |-> DiscordProfile.username,
                       email |-> DiscordProfile.email,
                       avatar |-> DiscordProfile.avatar,
                       updated_at |-> t]))
     ELSE LET out == CreateOutcome(g.users,
                       [id |-> uid, discord_id |-> DiscordProfile.id,
                        username |-> DiscordProfile.username,
                        email |-> DiscordProfile.email,
                        avatar |-> DiscordProfile.avatar,
                        created_at |-> t, updated_at |-> t], g.k)
          IN UserStep([g EXCEPT !.k = out.k], "Failed to create document", out)

\* GithubAuthRouter._upsert_user at time t.
GithubUpsertUser(f, t) ==
  LET existing == {u \in f.users : "github_id" \in DOMAIN u /\
                                     u["github_id"] = GithubProfile.id}
      g == [f EXCEPT !.used = Append(@, "users")]
  IN IF existing # {}
     THEN UserStep(g, "Failed to update document",
            UpdateOutcome(g.users,
              StrOid((CHOOSE u \in existing : TRUE)["_id"]),
              [username |-> GithubProfile.login,
               email |-> GithubProfile.email,
               avatar |-> GithubProfile.avatar_url,
               updated_at |-> t]))
     ELSE LET out == CreateOutcome(g.users,
                       [github_id |-> GithubProfile.id,
                        username |-> GithubProfile.login,
                        email |-> GithubProfile.email,
                        avatar |-> GithubProfile.avatar_url,
                        created_at |-> t, updated_at |-> t], g.k)
          IN UserStep([g EXCEPT !.k = out.k], "Failed to create document", out)

\* _create_session(user.id, access_token) at time t, uuid4() returning sid.
CreateSession(f, sid, t) ==
  LET out == CreateOutcome(f.sessions,
               [id |-> sid, user_id |-> f.user["id"],
                access_token |-> AccessToken,
                expires_at |-> t + SessionDays], f.k)
      g == [f EXCEPT !.used = Append(@, "sessions"), !.k = out.k,
                     !.sessions = out.docs]
  IN IF ~out.ok
     THEN [g EXCEPT !.ok = FALSE,
                    !.call = CatchException(g.call, "Failed to create document",
                                            out.e)]
     ELSE IF ~ValidSession(out.doc)
     THEN [g EXCEPT !.ok = FALSE,
                    !.call = Raised(g.call, "ValidationError", ValidationMsg)]
     ELSE g

\* response.set_cookie(key="session", value=token, ...) and the return.
SuccessResponse(f, t) ==
  [f EXCEPT !.call =
     [f.call EXCEPT
        !.returned = "success",
        !.result = {[id |-> f.user["id"], username |-> f.user["username"]]},
        !.cookie = {[key |-> "session",
                     value |-> GenerateJwt(f.user["id"], t)]}]]

\* A mutant of ProviderStep: no test of `if not access_token`.
ProviderStepIgnoresToken(f, provider) ==
  IF provider \in {"token_error", "profile_error"}
  THEN [f EXCEPT !.ok = FALSE,
                 !.call = HttpError(f.call, StatusBadRequest, HttpxErrorMsg)]
  ELSE f

\* The part of a callback before _upsert_user: the requests to the provider.
ProviderStep(f, provider) ==
  IF provider \in {"token_error", "profile_error"}
  THEN [f EXCEPT !.ok = FALSE,
                 !.call = HttpError(f.call, StatusBadRequest, HttpxErrorMsg)]
  ELSE IF provider = "no_token"
  THEN [f EXCEPT !.ok = FALSE,
                 !.call = HttpError(f.call, StatusBadRequest, NoTokenMsg)]
  ELSE f

\* The part of a callback after _upsert_user.
FinishCallback(f, sid, t) ==
  IF ~f.ok THEN f
  ELSE LET g == CreateSession(f, sid, t)
       IN IF ~g.ok THEN g ELSE SuccessResponse(g, t)

\* The handler has run: its effect on the state.
Respond(h, f) ==
  LET st == CacheSeq([handles |-> handles, collSeq |-> collSeq], h, f.used)
  IN /\ f.k <= MaxGen
     /\ last' = f.call
     /\ store' = [store EXCEPT ![<<handles[h].database, "users">>] = f.users,
                               ![<<handles[h].database, "sessions">>] = f.sessions]
     /\ oidCounter' = f.k
     /\ handles' = st.handles
     /\ collSeq' = st.collSeq
     /\ UNCHANGED <<mongodb_uri, instances, clients, deleted, tasks, now>>

\* A handler of a router whose self.db is the live handle h begins.
Begin(h, op, input) ==
  Flow(TRUE, [Call(op, h) EXCEPT !.doc = {input}],
       store[<<handles[h].database, "users">>],
       store[<<handles[h].database, "sessions">>], oidCounter, <<>>)

\* DiscordAuthRouter.discord_callback
DiscordCallback(h, provider, uid, sid) ==
  LET f == ProviderStep(Begin(h, "discord_callback", [provider |-> provider]),
                        provider)
  IN /\ h \in Handles /\ Live(h)
     /\ Respond(h, FinishCallback(
                     IF f.ok THEN DiscordUpsertUser(f, uid, now) ELSE f,
                     sid, now))

\* GithubAuthRouter.github_callback
GithubCallback(h, provider, sid) ==
  LET f == ProviderStep(Begin(h, "github_callback", [provider |-> provider]),
                        provider)
  IN /\ h \in Handles /\ Live(h)
     /\ Respond(h, FinishCallback(
                     IF f.ok THEN GithubUpsertUser(f, now) ELSE f,
                     sid, now))

(***************************************************************************)
(* Sessions: DiscordAuthRouter.get_current_user (GET /api/auth/me) and     *)
(* _get_session, which GithubAuthRouter has in the same words.             *)
(***************************************************************************)
NotAuthenticatedMsg == "Not authenticated"
InvalidTokenMsg == "Invalid session token"
NoSessionMsg == "No active session found"

\* A mutant of ActiveSessions: the query leaves out expires_at.
ActiveSessionsAnyTime(docs, user_id, t) ==
  {x \in docs : x["user_id"] = user_id}

\* find_one({"user_id": user_id, "expires_at": {"$gt": utcnow()}})
ActiveSessions(docs, user_id, t) ==
  {x \in docs : x["user_id"] = user_id /\ x["expires_at"] > t}

\* _get_user(user_id): the manager's get_document_by_id and User(**user).
GetUser(h, f, user_id) ==
  LET o == GetByIdOutcome(h, "users", user_id)
      g == [f EXCEPT !.used = Append(@, "users")]
  IN IF ~o.ok
     THEN [g EXCEPT !.ok = FALSE,
                    !.call = [g.call EXCEPT !.ok = FALSE, !.exc = o.exc,
                                            !.status = o.status,
                                            !.detail = o.detail]]
     ELSE IF \E r \in o.result : ~ValidUser(r)
     THEN [g EXCEPT !.ok = FALSE,
                    !.call = Raised(g.call, "ValidationError", ValidationMsg)]
     ELSE [g EXCEPT !.call = Returned(g.call, "user", o.result)]

\* _get_session(user_id) at time t, and what get_current_user does next.
GetSession(h, f, user_id, t) ==
  LET active == ActiveSessions(f.sessions, user_id, t)
      g == [f EXCEPT !.used = Append(@, "sessions")]
  IN IF active = {}
     THEN [g EXCEPT !.ok = FALSE,
                    !.call = HttpError(g.call, StatusUnauthorized, NoSessionMsg)]
     ELSE IF ~ValidSession(ToExternal(CHOOSE x \in active : TRUE))
     THEN [g EXCEPT !.ok = FALSE,
                    !.call = Raised(g.call, "ValidationError", ValidationMsg)]
     ELSE GetUser(h, g, user_id)

\* DiscordAuthRouter.get_current_user with the request's session cookie.
GetCurrentUser(h, token) ==
  LET f == Begin(h, "get_current_user", token)
  IN /\ h \in Handles /\ Live(h)
     /\ Respond(h,
          IF token.kind = "none"
          THEN [f EXCEPT !.call = HttpError(f.call, StatusUnauthorized,
                                            NotAuthenticatedMsg)]
          ELSE IF token.kind # "jwt" \/ token.exp <= now
          THEN [f EXCEPT !.call = HttpError(f.call, StatusUnauthorized,
                                            InvalidTokenMsg)]
          ELSE IF ~ValidUuid(token.sub)
          THEN [f EXCEPT !.call = Raised(f.call, "ValueError", BadUuidMsg)]
          ELSE GetSession(h, f, token.sub, now))

\* A day passes.
Tick ==
  /\ now < MaxTime
  /\ now' = now + 1
  /\ last' = Call("tick", 0)
  /\ UNCHANGED <<mongodb_uri, instances, handles, clients, collSeq, store,
                 oidCounter, deleted, tasks>>

(***************************************************************************)
(* SpecAuth: the two routers on the live handle of "auth_db".  The         *)
(* database outlives the process: the sessions collection starts with any  *)
(* of the records below, stored under ObjectIds as the manager stores      *)
(* documents.  Request cookies are whatever the client sends.              *)
(***************************************************************************)
\* The user the tokens and session records are about.
UserId == UuidStr("a")

SessionRecords ==
  {[_id |-> [i \in 1..OidHexLen |-> e], user_id |-> UserId,
    access_token |-> AccessToken, expires_at |-> e] : e \in 1..MaxTime}

\* Session cookies: none, one that does not verify, verified tokens of the
\* user that expire after one day and after the days modelled.
TokenInputs ==
  {[kind |-> "none"], [kind |-> "garbage"]} \cup
  {[kind |-> "jwt", sub |-> UserId, exp |-> e] : e \in {1, MaxTime + 1}}

InitAuth ==
  /\ mongodb_uri = TRUE
  /\ instances = [n \in {"auth_db"} |-> 1]
  /\ handles = <<[client |-> 1, database |-> "auth_db",
                  collections |-> EmptyDict]>>
  /\ clients = <<[db |-> "auth_db", open |-> TRUE]>>
  /\ collSeq = 0
  /\ \E S \in SUBSET SessionRecords :
       store = [k \in DbNames \X CollNames |->
                  IF k = <<"auth_db", "sessions">> THEN S ELSE {}]
  /\ oidCounter = 0
  /\ deleted = {}
  /\ last = [Call("new", 1) EXCEPT !.name = "auth_db"]
  /\ tasks = <<>>
  /\ now = 0

NextAuth ==
  \/ Tick
  \/ \E p \in ProviderCases, uid \in Uuid4Values, sid \in Uuid4Values :
       DiscordCallback(1, p, uid, sid)
  \/ \E p \in ProviderCases, sid \in Uuid4Values : GithubCallback(1, p, sid)
  \/ \E token \in TokenInputs : GetCurrentUser(1, token)

SpecAuth == InitAuth /\ [][NextAuth]_vars

(***************************************************************************)
(* DataRouter (src/routes/data.py): the post routes over the handle of     *)
(* "posts_db".  A route runs as one step.  An absent query parameter       *)
(* (None) and an empty one are both falsy in Python: both are the empty    *)
(* string here (<<>> for an identifier, which is a sequence).              *)
(***************************************************************************)
\* doc.pop("_id") and created["_id"] raise KeyError on a document that the
\* manager has already translated.
NoInternalId(doc) == "_id" \notin DOMAIN doc

\* Post(**doc) validates: id, metadata and content are required.
ValidPost(doc) == {"id", "metadata", "content"} \subseteq DOMAIN doc

\* filter = {"type": type} if type else {}
TypeFilter(type) == IF type = "" THEN EmptyDict ELSE [type |-> type]

\* The posts collection of the database of handle h.
PostsOf(h) == store[<<handles[h].database, "posts">>]

\* delete_document on a collection holding docs.
DeleteOutcome(docs, id) ==
  IF ~ValidOid(id)
  THEN [ok |-> FALSE, e |-> ExcInvalidId, docs |-> docs]
  ELSE IF DeletedCount(docs, ObjectId(id)) = 0
  THEN [ok |-> FALSE, e |-> ExcNotFound, docs |-> docs]
  ELSE [ok |-> TRUE, docs |-> DeleteOne(docs, ObjectId(id))]

\* Whether the id names a stored document.
Matches(docs, id) == ValidOid(id) /\ FindOne(docs, ObjectId(id)) # {}

\* A route on handle h has run: get_collection("posts") was called on the
\* handle, the collection holds docs and k identifiers have been generated.
RouteEffect(h, docs, k) ==
  LET key == <<handles[h].database, "posts">>
      before == {d["_id"] : d \in store[key]}
      after == {d["_id"] : d \in docs}
  IN /\ UseCollection(h, "posts")
     /\ store' = [store EXCEPT ![key] = docs]
     /\ oidCounter' = k
     /\ deleted' = (deleted \cup {<<key, o>> : o \in before \ after})
                     \ {<<key, o>> : o \in after}
     /\ UNCHANGED <<mongodb_uri, instances, clients, tasks, now>>

\* DataRouter.get_post(id, type)
GetPost(h, id, type) ==
  LET call == [Call("get_post", h) EXCEPT !.coll = "posts", !.id = {id},
                                         !.doc = {[type |-> type]}]
      one == GetByIdOutcome(h, "posts", id)
      posts == {ToExternal(d) : d \in Find(PostsOf(h), TypeFilter(type))}
  IN /\ h \in Handles /\ Live(h)
     /\ last' =
          IF id # <<>>
          THEN IF ~one.ok
               THEN \* `except HTTPException as e: raise e`
                    [call EXCEPT !.ok = FALSE, !.exc = one.exc,
                                 !.status = one.status, !.detail = one.detail]
               ELSE IF one.result = {}
               THEN HttpError(call, StatusNotFound, "Post not found")
               ELSE IF \E p \in one.result : NoInternalId(p)
               THEN HttpError(call, StatusStoreFailure, "Failed to fetch post")
               ELSE IF \E p \in one.result : ~ValidPost(ToExternal(p))
               THEN HttpError(call, StatusStoreFailure, "Failed to fetch post")
               ELSE Returned(call, "post", {ToExternal(p) : p \in one.result})
          ELSE IF \E p \in posts : NoInternalId(p)
               THEN HttpError(call, StatusStoreFailure,
                              "An error occurred while fetching posts")
               ELSE Returned(call, "posts", {ToExternal(p) : p \in posts})
     /\ RouteEffect(h, PostsOf(h), oidCounter)

\* DataRouter.create_post(post)
CreatePost(h, post) ==
  LET call == [Call("create_post", h) EXCEPT !.coll = "posts", !.doc = {post}]
      out == CreateOutcome(PostsOf(h), Without(post, "id"), oidCounter)
  IN /\ h \in Handles /\ Live(h)
     /\ out.k <= MaxGen
     /\ last' =
          IF ~out.ok \/ NoInternalId(out.doc)
          THEN HttpError(call, StatusStoreFailure, "Failed to create resource")
          ELSE Returned(call, "success",
                 {[id |-> StrOid(out.doc["_id"]),
                   title |-> out.doc["content"]["title"],
                   type |-> out.doc["metadata"]["type"]]})
     /\ RouteEffect(h, out.docs, out.k)

\* DataRouter.update_post(post, id)
UpdatePost(h, post, id) ==
  LET call == [Call("update_post", h) EXCEPT
                 !.coll = "posts", !.id = {id}, !.doc = {post},
                 !.hit = Matches(PostsOf(h), id)]
      out == UpdateOutcome(PostsOf(h), id, Without(post, "id"))
      failed == HttpError(call, StatusStoreFailure, "Failed to update post")
  IN /\ h \in Handles /\ Live(h)
     /\ IF id = <<>>
        THEN \* the 400 is raised inside the try and caught by its except
             /\ last' = failed
             /\ UNCHANGED <<handles, collSeq, store, oidCounter, deleted,
                            mongodb_uri, instances, clients, tasks, now>>
        ELSE /\ last' =
                  IF ~out.ok \/ NoInternalId(out.doc)
                  THEN failed
                  ELSE IF ~ValidPost(ToExternal(out.doc))
                  THEN failed
                  ELSE Returned(call, "post", {ToExternal(out.doc)})
             /\ RouteEffect(h, out.docs, oidCounter)

\* DataRouter.delete_post(id)
DeletePost(h, id) ==
  LET call == [Call("delete_post", h) EXCEPT
                 !.coll = "posts", !.id = {id},
                 !.hit = Matches(PostsOf(h), id)]
      out == DeleteOutcome(PostsOf(h), id)
      failed == HttpError(call, StatusStoreFailure, "Failed to delete post")
  IN /\ h \in Handles /\ Live(h)
     /\ IF id = <<>>
        THEN /\ last' = failed
             /\ UNCHANGED <<handles, collSeq, store, oidCounter, deleted,
                            mongodb_uri, instances, clients, tasks, now>>
        ELSE /\ last' = IF ~out.ok THEN failed
                        ELSE Returned(call, "message",
                                      {"Post deleted successfully"})
             /\ RouteEffect(h, out.docs, oidCounter)

(***************************************************************************)
(* SpecRoutes: the post routes on the live handle of "posts_db".  The      *)
(* database outlives the process: the posts collection starts with any of  *)
(* the records below.                                                      *)
(***************************************************************************)
PostTypes == {"note", "video"}

\* Posts as stored: metadata and content are sub-documents.
PostRecords ==
  {[_id |-> ObjectId(Rep("a")), content |-> [title |-> "A"],
    metadata |-> [type |-> "note", author |-> "ann"]],
   [_id |-> ObjectId(Rep("b")), content |-> [title |-> "A"],
    metadata |-> [type |-> "video", author |-> "ann"]]}

\* Request bodies: posts as the Post model accepts them.
PostInputs ==
  {[id |-> Rep("0"), content |-> [title |-> "B"],
    metadata |-> [type |-> "note", author |-> "ann"]],
   [id |-> Rep("0"), content |-> [title |-> "A"],
    metadata |-> [type |-> "video", author |-> "ann"]]}

\* Values of the id query parameter: absent, stored and unknown
\* identifiers, one that is not an identifier, and those generated.
PostIdInputs == {<<>>, Rep("a"), Rep("b"), Rep("c"), Rep("z")} \cup GeneratedIds

InitRoutes ==
  /\ mongodb_uri = TRUE
  /\ instances = [n \in {"posts_db"} |-> 1]
  /\ handles = <<[client |-> 1, database |-> "posts_db",
                  collections |-> EmptyDict]>>
  /\ clients = <<[db |-> "posts_db", open |-> TRUE]>>
  /\ collSeq = 0
  /\ \E S \in SUBSET PostRecords :
       store = [k \in DbNames \X CollNames |->
                  IF k = <<"posts_db", "posts">> THEN S ELSE {}]
  /\ oidCounter = 0
  /\ deleted = {}
  /\ last = [Call("new", 1) EXCEPT !.name = "posts_db"]
  /\ tasks = <<>>
  /\ now = 0

NextRoutes ==
  \/ \E id \in PostIdInputs, type \in {""} \cup PostTypes :
       GetPost(1, id, type)
  \/ \E post \in PostInputs : CreatePost(1, post)
  \/ \E post \in PostInputs, id \in PostIdInputs : UpdatePost(1, post, id)
  \/ \E id \in PostIdInputs : DeletePost(1, id)

SpecRoutes == InitRoutes /\ [][NextRoutes]_vars

(***************************************************************************)
(* SpecCollections: get_collection on the live handles of the two          *)
(* databases the routers use, called directly and by a record operation.   *)
(***************************************************************************)
InitCollections ==
  /\ mongodb_uri = TRUE
  /\ instances = [n \in DbNames |-> IF n = "auth_db" THEN 1 ELSE 2]
  /\ handles = <<[client |-> 1, database |-> "auth_db",
                  collections |-> EmptyDict],
                 [client |-> 2, database |-> "posts_db",
                  collections |-> EmptyDict]>>
  /\ clients = <<[db |-> "auth_db", open |-> TRUE],
                 [db |-> "posts_db", open |-> TRUE]>>
  /\ collSeq = 0
  /\ store = [k \in DbNames \X CollNames |-> {}]
  /\ oidCounter = 0
  /\ deleted = {}
  /\ last = Call("none", 0)
  /\ tasks = <<>>
  /\ now = 0

NextCollections ==
  \/ \E h \in Handles, c \in CollNames :
       GetCollection(h, c) /\ UNCHANGED callerVars
  \/ \E h \in Handles, c \in CollNames :
       GetAllDocuments(h, c, EmptyDict) /\ UNCHANGED callerVars

SpecCollections == InitCollections /\ [][NextCollections]_vars

(***************************************************************************)
(* The resource routes of src/main.py, which use a collection object of    *)
(* their own (database "resources", collection "resources") and not the    *)
(* manager.  A Resource has an id and plain string fields, of which title  *)
(* and type are kept.                                                      *)
(***************************************************************************)
ResourcesKey == <<"resources", "resources">>

\* Resource(**doc) validates.
ValidResource(doc) == {"id", "title", "type"} \subseteq DOMAIN doc

\* get_resources(type): GET /api/resources
GetResources(type) ==
  LET call == [Call("get_resources", 0) EXCEPT !.coll = "resources",
                                              !.doc = {[type |-> type]}]
      \* built and logged, and not passed to find()
      filter == TypeFilter(type)
      resources == Find(store[ResourcesKey], EmptyDict)
      detail ==
        "An error occurred while fetching resources. Please try again later."
  IN /\ last' = IF \E r \in resources : ~ValidResource(ToExternal(r))
                THEN HttpError(call, StatusStoreFailure, detail)
                ELSE Returned(call, "resources",
                              {ToExternal(r) : r \in resources})
     /\ UNCHANGED <<mongodb_uri, instances, handles, clients, collSeq, store,
                    oidCounter, deleted, tasks, now>>

\* create_resource(resource): POST /api/resources
CreateResource(resource) ==
  LET call == [Call("create_resource", 0) EXCEPT !.coll = "resources",
                                                !.doc = {resource}]
      prefix == "Failed to create resource"
      docs == store[ResourcesKey]
      stored == With(Without(resource, "id"), "_id", ObjectId(resource["id"]))
  IN /\ IF ~ValidOid(resource["id"])
        THEN /\ last' = CatchException(call, prefix, ExcInvalidId)
             /\ UNCHANGED store
        ELSE IF FindOne(docs, ObjectId(resource["id"])) # {}
        THEN /\ last' = CatchException(call, prefix, ExcDuplicateKey)
             /\ UNCHANGED store
        ELSE /\ store' = [store EXCEPT ![ResourcesKey] = docs \cup {stored}]
             /\ last' = Returned(call, "resource", {ToExternal(stored)})
     /\ UNCHANGED <<mongodb_uri, instances, handles, clients, collSeq,
                    oidCounter, deleted, tasks, now>>

\* delete_resource(id): DELETE /api/resources/{id}
DeleteResource(id) ==
  LET call == [Call("delete_resource", 0) EXCEPT !.coll = "resources",
                                                !.id = {id}]
      prefix == "Failed to delete resource"
      docs == store[ResourcesKey]
  IN /\ IF ~ValidOid(id)
        THEN /\ last' = CatchException(call, prefix, ExcInvalidId)
             /\ UNCHANGED store
        ELSE IF DeletedCount(docs, ObjectId(id)) = 0
        THEN /\ last' = CatchException(call, prefix,
                          [ExcNotFound EXCEPT
                             !.str = "404: Resource not found"])
             /\ UNCHANGED store
        ELSE /\ store' = [store EXCEPT ![ResourcesKey] =
                            DeleteOne(docs, ObjectId(id))]
             /\ last' = Returned(call, "message",
                                  {"Resource deleted successfully"})
     /\ UNCHANGED <<mongodb_uri, instances, handles, clients, collSeq,
                    oidCounter, deleted, tasks, now>>

(***************************************************************************)
(* SpecResources: the application of src/main.py from its start on an      *)
(* empty resources collection.                                             *)
(***************************************************************************)
\* Request bodies, as the Resource model delivers them.
ResourceInputs ==
  {[id |-> i, title |-> ti, type |-> ty] :
     i \in {Rep("a"), Rep("b"), Rep("z")}, ti \in {"A", "B"}, ty \in PostTypes}

InitResources ==
  /\ mongodb_uri = TRUE
  /\ instances = EmptyDict
  /\ handles = <<>>
  /\ clients = <<>>
  /\ collSeq = 0
  /\ store = [k \in (DbNames \X CollNames) \cup {ResourcesKey} |-> {}]
  /\ oidCounter = 0
  /\ deleted = {}
  /\ last = Call("none", 0)
  /\ tasks = <<>>
  /\ now = 0

NextResources ==
  \/ \E type \in {""} \cup PostTypes : GetResources(type)
  \/ \E resource \in ResourceInputs : CreateResource(resource)
  \/ \E id \in {Rep("a"), Rep("b"), Rep("c"), Rep("z")} :
       DeleteResource(id)

SpecResources == InitResources /\ [][NextResources]_vars

(***************************************************************************)
(* SpecUpsert: _upsert_user of the two routers, taken await by await.      *)
(* Each task is one OAuth callback that has the provider's profile and     *)
(* calls _upsert_user: it awaits find_one, then awaits update_document or  *)
(* create_document; the event loop may run other tasks at each await.      *)
(***************************************************************************)
Providers == {"discord", "github"}

\* The field that holds the provider's identifier, and the identifier.
ProviderKey(p) == IF p = "discord" THEN "discord_id" ELSE "github_id"

\* The documents of docs that find_one({"<provider>_id": ...}) matches.
ExistingUsers(docs, p) ==
  {u \in docs : /\ ProviderKey(p) \in DOMAIN u
                /\ u[ProviderKey(p)] = IF p = "discord" THEN DiscordProfile.id
                                       ELSE GithubProfile.id}

\* update_data of _upsert_user at time t.
UserUpdateData(p, t) ==
  IF p = "discord"
  THEN [username |-> DiscordProfile.username, email |-> DiscordProfile.email,
        avatar |-> DiscordProfile.avatar, updated_at |-> t]
  ELSE [username |-> GithubProfile.login, email |-> GithubProfile.email,
        avatar |-> GithubProfile.avatar_url, updated_at |-> t]

\* new_user_data of _upsert_user at time t; Discord's carries str(uuid4()).
NewUserData(p, uid, t) ==
  IF p = "discord"
  THEN [id |-> uid, discord_id |-> DiscordProfile.id,
        username |-> DiscordProfile.username, email |-> DiscordProfile.email,
        avatar |-> DiscordProfile.avatar, created_at |-> t, updated_at |-> t]
  ELSE [github_id |-> GithubProfile.id,
        username |-> GithubProfile.login, email |-> GithubProfile.email,
        avatar |-> GithubProfile.avatar_url, created_at |-> t, updated_at |-> t]

\* existing_user = await ...get_collection("users").find_one(...)
UpsertFind(t) ==
  /\ tasks[t].pc = "find"
  /\ UseCollection(1, "users")
  /\ tasks' = [tasks EXCEPT
                 ![t].pc = "write",
                 ![t].existing =
                   ExistingUsers(store[<<"auth_db", "users">>], tasks[t].provider)]
  /\ UNCHANGED <<mongodb_uri, instances, clients, store, oidCounter, deleted,
                 last, now>>

\* `if existing_user:` and the branch taken, to the return of _upsert_user.
UpsertWrite(t, uid) ==
  LET p == tasks[t].provider
      docs == store[<<"auth_db", "users">>]
      f == Flow(TRUE, [Call("upsert_user", 1) EXCEPT !.name = p,
                                                    !.coll = "users"],
                docs, {}, oidCounter, <<>>)
      user_id == StrOid((CHOOSE u \in tasks[t].existing : TRUE)["_id"])
      created == CreateOutcome(docs, NewUserData(p, uid, now), oidCounter)
      g == IF tasks[t].existing # {}
           THEN IF p = "discord" /\ ~ValidUuid(user_id)
                THEN [f EXCEPT !.ok = FALSE,
                               !.call = Raised(f.call, "ValueError", BadUuidMsg)]
                ELSE UserStep(f, "Failed to update document",
                       UpdateOutcome(docs, user_id, UserUpdateData(p, now)))
           ELSE UserStep([f EXCEPT !.k = created.k],
                         "Failed to create document", created)
  IN /\ tasks[t].pc = "write"
     /\ UseCollection(1, "users")
     /\ store' = [store EXCEPT ![<<"auth_db", "users">>] = g.users]
     /\ oidCounter' = g.k
     /\ last' = IF g.ok THEN Returned(g.call, "user", {g.user}) ELSE g.call
     /\ tasks' = [tasks EXCEPT ![t].pc = IF g.ok THEN "done" ELSE "failed"]
     /\ UNCHANGED <<mongodb_uri, instances, clients, deleted, now>>

InitUpsert ==
  /\ mongodb_uri = TRUE
  /\ instances = [n \in {"auth_db"} |-> 1]
  /\ handles = <<[client |-> 1, database |-> "auth_db",
                  collections |-> EmptyDict]>>
  /\ clients = <<[db |-> "auth_db", open |-> TRUE]>>
  /\ collSeq = 0
  /\ store = [k \in DbNames \X CollNames |-> {}]
  /\ oidCounter = 0
  /\ deleted = {}
  /\ last = [Call("new", 1) EXCEPT !.name = "auth_db"]
  /\ tasks \in [Tasks -> {[pc |-> "find", provider |-> p, existing |-> {}] :
                            p \in Providers}]
  /\ now = 0

NextUpsert ==
  \/ Tick
  \/ \E t \in Tasks : UpsertFind(t)
  \/ \E t \in Tasks, uid \in Uuid4Values : UpsertWrite(t, uid)

SpecUpsert == InitUpsert /\ [][NextUpsert]_vars

(***************************************************************************)
(* Claims about the registry, checked under Spec.                          *)
(***************************************************************************)
Clients == 1..Len(clients)

\* The connections opened for database `name` and not yet closed.
LiveClients(name) == {c \in Clients : clients[c].open /\ clients[c].db = name}

\* The connections of database `name` that have been closed.
ClosedClients(name) == {c \in Clients : ~clients[c].open /\ clients[c].db = name}

\* C1: after any sequence of MongoManager(name) and close() calls there is
\* at most one live connection per database name, and a registry entry,
\* when present, is the handle that owns that live connection.
C1_OneLiveConnectionPerName ==
  \A name \in DbNames :
    /\ Cardinality(LiveClients(name)) <= 1
    /\ name \in DOMAIN instances =>
         /\ instances[name] \in Handles
         /\ handles[instances[name]].database = name
         /\ handles[instances[name]].client \in LiveClients(name)

\* C1 witness: a database whose first connection was closed has a new live
\* one, while the other database is registered too.
C1_Witness ==
  /\ DOMAIN instances = DbNames
  /\ \E name \in DbNames : ClosedClients(name) # {} /\ LiveClients(name) # {}

\* C2: MongoManager(name) for a name that is registered returns the
\* registered handle itself, opens no connection and leaves every handle,
\* its cached collections included, as it was.
C2_GetHandleIdempotent ==
  [][\A name \in DbNames :
       (name \in DOMAIN instances /\ last'.op = "new" /\ last'.name = name) =>
         /\ last'.ok
         /\ last'.h = instances[name]
         /\ instances' = instances
         /\ clients' = clients
         /\ handles' = handles]_vars

\* C2 witness: a second construction returned the registered handle while
\* that handle had a collection cached.
C2_Witness ==
  /\ last.op = "new" /\ last.hit
  /\ last.h = instances[last.name]
  /\ DOMAIN handles[last.h].collections # {}

\* A call that failed because the handle is not initialized.
NotInitializedFailure(call) ==
  /\ ~call.ok
  /\ call.detail # <<>>
  /\ call.detail[Len(call.detail)] \in
       {NotInitializedMsg, ClientNotInitializedMsg}

\* C3: close() of a live handle closes its connection, removes it from the
\* registry and empties its collection cache; every later get_collection,
\* client, database or record operation on it fails as not initialized;
\* and the next MongoManager(name) makes a new handle and connection.
C3_ShutdownEvicts ==
  [][/\ \A h \in Handles :
          (Live(h) /\ last'.op = "close" /\ last'.h = h) =>
            /\ ~clients'[handles[h].client].open
            /\ \A k \in DOMAIN instances' : instances'[k] # h
            /\ handles'[h].collections = EmptyDict
            /\ handles'[h].client = NoneClient
     /\ \A h \in Handles :
          (~Live(h) /\ last'.h = h /\
             last'.op \in RecordOps \cup {"get_collection", "client", "database"}) =>
            /\ NotInitializedFailure(last')
            /\ last'.op \in RecordOps => last'.status = StatusStoreFailure
            /\ store' = store
            /\ ~Live(h)'
     /\ \A name \in DbNames :
          (ClosedClients(name) # {} /\ LiveClients(name) = {} /\
             last'.op = "new" /\ last'.name = name /\ last'.ok) =>
            /\ last'.h \notin Handles
            /\ instances'[name] = last'.h
            /\ handles'[last'.h].client \notin Clients
            /\ clients'[handles'[last'.h].client].open]_vars

\* C3 witness: create was called on an evicted handle after a new handle
\* had been made for the same database.
C3_Witness ==
  /\ last.op = "create"
  /\ ~Live(last.h)
  /\ NotInitializedFailure(last)
  /\ \E name \in DOMAIN instances :
       ClosedClients(name) # {} /\ instances[name] # last.h

\* C16: while MONGODB_URI is not set, MongoManager(name) fails with the
\* ValueError of the missing configuration, opens no connection, creates
\* and registers no handle, and makes that one attempt only: the registry,
\* the handles and the connections are as they were before the call.
C16_MissingUriFailsFast ==
  [][(~mongodb_uri /\ last'.op = "new") =>
       /\ ~last'.ok
       /\ last'.exc = "ValueError"
       /\ last'.detail = <<UriNotSetMsg>>
       /\ last'.name \notin DOMAIN instances'
       /\ instances' = instances
       /\ clients' = clients
       /\ handles' = handles]_vars

\* C16 witness: a construction has failed for the missing configuration
\* and the registry is empty.
C16_Witness ==
  /\ ~mongodb_uri
  /\ last.op = "new" /\ ~last.ok /\ last.exc = "ValueError"
  /\ last.name = "auth_db"
  /\ instances = EmptyDict /\ clients = <<>> /\ handles = <<>>

(***************************************************************************)
(* Claims about the record access operations, checked under SpecStore.     *)
(***************************************************************************)
\* The documents of collection c in the database of the live handle h.
StoredDocs(h, c) == store[<<handles[h].database, c>>]

\* The identifiers under which the documents of a collection are stored.
StoredIds(docs) == {d["_id"] : d \in docs}

\* An identifier string with its hex digits in lower case, as the API
\* exposes identifiers.
LowerCase(s) ==
  [i \in 1..Len(s) |->
     IF \E n \in 1..16 : HexUpper[n] = s[i]
     THEN HexLower[CHOOSE n \in 1..16 : HexUpper[n] = s[i]]
     ELSE s[i]]

\* The identifier string names no document of the collection.
NoMatch(docs, i) == ~ValidOid(i) \/ FindOne(docs, ObjectId(i)) = {}

\* C4: get_by_id fails with NotFound (404) whenever no document has the
\* given identifier or the identifier string is not well formed, and
\* returns no document then.
C4_GetByIdNotFound ==
  (last.op = "get_by_id" /\ Live(last.h)) =>
    \A i \in last.id :
      NoMatch(StoredDocs(last.h, last.coll), i) =>
        /\ ~last.ok
        /\ last.status = StatusNotFound
        /\ last.returned # "document"

\* C5: create with an explicit id equal to the identifier of a stored
\* document fails with Conflict (409) and leaves the collection unchanged.
C5_CreateDuplicateConflicts ==
  [][(last'.op = "create" /\ Live(last'.h)) =>
       \A d \in last'.doc :
         ("id" \in DOMAIN d /\ ~NoMatch(StoredDocs(last'.h, last'.coll), d["id"])) =>
           /\ ~last'.ok
           /\ last'.status = 409
           /\ store' = store]_vars

\* C6: delete returns true exactly when a document with the identifier
\* existed, and then removes exactly that document; when nothing was
\* removed it fails with NotFound (404) and the collection is unchanged.
C6_DeleteTrueOrNotFound ==
  [][(last'.op = "delete" /\ Live(last'.h)) =>
       \A i \in last'.id :
         LET before == StoredDocs(last'.h, last'.coll)
             after == store'[<<handles[last'.h].database, last'.coll>>]
         IN IF NoMatch(before, i)
            THEN /\ ~last'.ok
                 /\ last'.status = StatusNotFound
                 /\ after = before
            ELSE /\ last'.ok /\ last'.returned = "true"
                 /\ after = before \ FindOne(before, ObjectId(i))
                 /\ Cardinality(after) = Cardinality(before) - 1]_vars

\* C7: after a successful delete, with no create of that identifier since,
\* get_by_id on the identifier yields NotFound: no document, no StoreFailure.
C7_DeleteThenGetByIdNotFound ==
  (last.op = "get_by_id" /\ Live(last.h)) =>
    \A i \in last.id :
      (ValidOid(i) /\
         <<(<<handles[last.h].database, last.coll>>), ObjectId(i)>> \in deleted) =>
        /\ ~last.ok
        /\ last.status = StatusNotFound

\* The document get_by_id returns for the id of r is r, r has the fields
\* of d other than id with d's values, and nothing else but its id.
ReadsBack(h, c, d, r) ==
  /\ "id" \in DOMAIN r
  /\ DOMAIN r = DOMAIN d \cup {"id"}
  /\ \A f \in DOMAIN d \ {"id"} : r[f] = d[f]
  /\ GetByIdOutcome(h, c, r["id"]).ok
  /\ GetByIdOutcome(h, c, r["id"]).result = {r}

\* C8 as stated: after a successful create of D, get_by_id with the id
\* create returned yields the value create returned, equal to D in every
\* field.
C8_CreateThenGetByIdEqual ==
  (last.op = "create" /\ last.ok) =>
    /\ last.result # {}
    /\ \A d \in last.doc, r \in last.result :
         /\ ReadsBack(last.h, last.coll, d, r)
         /\ \A f \in DOMAIN d : r[f] = d[f]

\* C8 as amended: after a successful create of D, get_by_id with the id
\* create returned yields the value create returned, equal to D in every
\* field other than id; its id is D's id with the hex digits in lower
\* case when D carries one.
C8_CreateThenGetById ==
  (last.op = "create" /\ last.ok) =>
    /\ last.result # {}
    /\ \A d \in last.doc, r \in last.result :
         /\ ReadsBack(last.h, last.coll, d, r)
         /\ "id" \in DOMAIN d => r["id"] = LowerCase(d["id"])

\* C8 witness: create succeeded for a document whose id is in upper case.
C8_Witness ==
  /\ last.op = "create" /\ last.ok
  /\ \E d \in last.doc, r \in last.result :
       /\ "id" \in DOMAIN d /\ d["id"] = Rep("A")
       /\ "type" \in DOMAIN d
       /\ r["id"] = Rep("a")

\* C9: update fails exactly when no document with the identifier is
\* matched: an update of a stored document succeeds and returns the stored
\* document, also when every supplied value already equals the stored one.
C9_UpdateFailsOnlyWhenUnmatched ==
  [][(last'.op = "update" /\ Live(last'.h)) =>
       \A i \in last'.id :
         LET before == StoredDocs(last'.h, last'.coll)
             after == store'[<<handles[last'.h].database, last'.coll>>]
         IN IF NoMatch(before, i)
            THEN ~last'.ok
            ELSE /\ last'.ok
                 /\ last'.result =
                      {ToExternal(d) : d \in FindOne(after, ObjectId(i))}]_vars

\* C10: update never changes an identifier: the collection holds the same
\* identifiers before and after, one document each, and a successful
\* update returns the target under the identifier it was called with,
\* whatever id the partial document carries.
C10_UpdateKeepsIdentifier ==
  [][(last'.op = "update" /\ Live(last'.h)) =>
       LET before == StoredDocs(last'.h, last'.coll)
           after == store'[<<handles[last'.h].database, last'.coll>>]
       IN /\ StoredIds(after) = StoredIds(before)
          /\ Cardinality(after) = Cardinality(before)
          /\ Cardinality(StoredIds(after)) = Cardinality(after)
          /\ last'.ok =>
               \A i \in last'.id, r \in last'.result :
                 /\ "id" \in DOMAIN r /\ "_id" \notin DOMAIN r
                 /\ r["id"] = LowerCase(i)
                 /\ ObjectId(i) \in StoredIds(after)]_vars

\* C10 witness: an update succeeded whose partial document carries the id
\* of another stored document.
C10_Witness ==
  /\ last.op = "update" /\ last.ok
  /\ \E i \in last.id, d \in last.doc, r \in last.result :
       /\ "id" \in DOMAIN d
       /\ ValidOid(d["id"])
       /\ ObjectId(d["id"]) # ObjectId(i)
       /\ ObjectId(d["id"]) \in StoredIds(StoredDocs(last.h, last.coll))
       /\ r["id"] = LowerCase(i)

\* The returned document r is the stored document d as callers see it: d's
\* fields other than _id with d's values, and d's identifier as a string.
Exposes(r, d) ==
  /\ "id" \in DOMAIN r
  /\ ValidOid(r["id"])
  /\ ObjectId(r["id"]) = d["_id"]
  /\ \A k \in DOMAIN d \ {"_id"} : k \in DOMAIN r /\ r[k] = d[k]

\* The stored documents that satisfy every equality constraint of filter f.
Matching(docs, f) ==
  {d \in docs : \A k \in DOMAIN f : k \in DOMAIN d /\ d[k] = f[k]}

\* C11: list on a live handle succeeds and returns exactly the documents of
\* the collection that satisfy every field-equality constraint of the
\* filter, all of them when the filter is empty, one returned document per
\* stored one; when none matches the result is empty and not a failure.
C11_ListMatchesFilter ==
  (last.op = "get_all" /\ Live(last.h)) =>
    /\ last.ok
    /\ last.returned = "documents"
    /\ \A f \in last.doc :
         LET matching == Matching(StoredDocs(last.h, last.coll), f)
         IN /\ Cardinality(last.result) = Cardinality(matching)
            /\ \A d \in matching : \E r \in last.result : Exposes(r, d)
            /\ f = EmptyDict =>
                 Cardinality(last.result) =
                   Cardinality(StoredDocs(last.h, last.coll))

\* C11 witness: a list with a two-field filter returned some of the stored
\* documents and left out another.
C11_Witness ==
  /\ last.op = "get_all" /\ last.ok
  /\ \E f \in last.doc : Cardinality(DOMAIN f) = 2
  /\ last.result # {}
  /\ Cardinality(last.result) < Cardinality(StoredDocs(last.h, last.coll))

\* The operations that return documents.
DocumentOps == {"get_all", "get_by_id", "create", "update"}

\* C12: every document that list, get_by_id, create or update returns has
\* its identifier under 'id' as a hexadecimal string of the fixed length in
\* canonical (lower-case) form, has no '_id', and is the external view of
\* the document stored under that identifier; the three single-document
\* operations return one document.
C12_ReturnedDocumentsCarryExternalId ==
  (last.op \in DocumentOps /\ last.ok) =>
    /\ last.op # "get_all" => Cardinality(last.result) = 1
    /\ \A r \in last.result :
         /\ "id" \in DOMAIN r
         /\ "_id" \notin DOMAIN r
         /\ ValidOid(r["id"])
         /\ r["id"] = LowerCase(r["id"])
         /\ \E d \in StoredDocs(last.h, last.coll) :
              /\ Exposes(r, d)
              /\ DOMAIN r = (DOMAIN d \ {"_id"}) \cup {"id"}

\* C12 witness: a list returned two documents, one stored under an
\* identifier the store generated and one under a caller-assigned one.
C12_Witness ==
  /\ last.op = "get_all" /\ last.ok
  /\ Cardinality(last.result) = 2
  /\ \E r \in last.result : "id" \in DOMAIN r /\ r["id"] \in GeneratedIds
  /\ \E r \in last.result : "id" \in DOMAIN r /\ r["id"] = Rep("a")

\* C17 as stated: a successful create of a document with a well-formed id
\* stores it under that identifier and returns it with that same id; one
\* of a document without id stores it under an identifier that no document
\* of the collection had.
C17_CreateKeepsGivenId ==
  [][(last'.op = "create" /\ last'.ok) =>
       \A d \in last'.doc, r \in last'.result :
         LET before == StoredDocs(last'.h, last'.coll)
             after == store'[<<handles[last'.h].database, last'.coll>>]
         IN /\ "id" \in DOMAIN r
            /\ \E s \in after \ before : Exposes(r, s)
            /\ IF "id" \in DOMAIN d
               THEN r["id"] = d["id"]
               ELSE ObjectId(r["id"]) \notin StoredIds(before)]_vars

\* C17 as amended: a successful create adds one document and returns it;
\* when the given document has a well-formed id, the new document is
\* stored under the identifier that id denotes and the returned id is its
\* canonical lower-case string; when it has none, create succeeds and the
\* new document is stored under an identifier that no document of the
\* collection had.
C17_CreateAssignsIdentifier ==
  [][(last'.op = "create" /\ Live(last'.h)) =>
       \A d \in last'.doc :
         LET before == StoredDocs(last'.h, last'.coll)
             after == store'[<<handles[last'.h].database, last'.coll>>]
         IN /\ "id" \notin DOMAIN d => last'.ok
            /\ last'.ok =>
                 /\ Cardinality(after \ before) = 1
                 /\ before \subseteq after
                 /\ \A r \in last'.result :
                      /\ "id" \in DOMAIN r
                      /\ \A s \in after \ before :
                           /\ Exposes(r, s)
                           /\ s["_id"] \notin StoredIds(before)
                      /\ "id" \in DOMAIN d =>
                           /\ ValidOid(d["id"])
                           /\ r["id"] = LowerCase(d["id"])]_vars

\* C17 witness: a create without id succeeded in a collection that held a
\* document with a caller-assigned identifier.
C17_Witness ==
  /\ last.op = "create" /\ last.ok
  /\ \A d \in last.doc : "id" \notin DOMAIN d
  /\ \E r \in last.result : "id" \in DOMAIN r /\ r["id"] \in GeneratedIds
  /\ ObjectId(Rep("a")) \in StoredIds(StoredDocs(last.h, last.coll))

\* C18: a successful update changes the target by a field-level set: the
\* fields the partial document names, other than id, hold the supplied
\* values, the target's other fields and its identifier are as before, it
\* gains no other field, and every other document of the collection is
\* unchanged.
C18_UpdateSetsNamedFieldsOnly ==
  [][(last'.op = "update" /\ last'.ok) =>
       \A i \in last'.id, d \in last'.doc :
         LET before == StoredDocs(last'.h, last'.coll)
             after == store'[<<handles[last'.h].database, last'.coll>>]
             named == DOMAIN d \ {"id"}
         IN /\ ValidOid(i)
            /\ \E t \in before, u \in after :
                 /\ t["_id"] = ObjectId(i)
                 /\ u["_id"] = t["_id"]
                 /\ DOMAIN u = DOMAIN t \cup named
                 /\ \A f \in named : u[f] = d[f]
                 /\ \A f \in DOMAIN t \ named : u[f] = t[f]
                 /\ after \ {u} = before \ {t}]_vars

\* C18 witness: an update that names title succeeded on a document that
\* has a type as well, in a collection with another document.
C18_Witness ==
  /\ last.op = "update" /\ last.ok
  /\ \E d \in last.doc : DOMAIN d = {"title"}
  /\ \E r \in last.result : "type" \in DOMAIN r
  /\ Cardinality(StoredDocs(last.h, last.coll)) = 2

(***************************************************************************)
(* Claims about failures, checked under SpecFault.                         *)
(***************************************************************************)
\* The status codes of NotFound, Conflict and StoreFailure.
UniformKinds == {StatusNotFound, 409, StatusStoreFailure}

\* C13: each of the five record operations ends with its result or with an
\* HTTPException of one of the uniform kinds; an exception of the driver,
\* of identifier parsing or of an evicted handle never reaches the caller
\* as it was raised.
C13_FailuresAreUniform ==
  last.op \in RecordOps =>
    IF last.ok
    THEN last.returned \in {"documents", "document", "true"}
    ELSE /\ last.exc = "HTTPException"
         /\ last.status \in UniformKinds
         /\ last.returned = ""

\* C13 witness: an operation on a live handle ended with StoreFailure after
\* the driver raised.
C13_Witness ==
  /\ last.op \in RecordOps /\ ~last.ok
  /\ Live(last.h)
  /\ last.exc = "HTTPException" /\ last.status = StatusStoreFailure
  /\ \E t \in NativeErrors : last.detail = <<FailurePrefix[last.op], t>>

\* The detail a caller receives when operation op meets a store fault that
\* the driver describes as text.
FaultDetail(op, text) ==
  CatchException(Call(op, 0), FailurePrefix[op], ExcStoreFault(text)).detail

\* C14: the detail of a failure does not depend on the driver's description
\* of the fault: had the same fault been described by any other text, the
\* caller would have received the same detail.
C14_FailureDetailHidesFault ==
  (last.op \in RecordOps /\ ~last.ok) =>
    \A t1 \in NativeErrors, t2 \in NativeErrors :
      last.detail = FaultDetail(last.op, t1) =>
        last.detail = FaultDetail(last.op, t2)

(***************************************************************************)
(* Claims about concurrent construction, checked under SpecTasks.          *)
(***************************************************************************)
\* The connections ever opened for database `name`.
OpenedClients(name) == {c \in 1..Len(clients) : clients[c].db = name}

\* C15: whatever the interleaving of tasks that request the handle of the
\* same database name, at most one connection is opened for the name, and
\* the tasks that have their handle hold the same instance, the registered
\* one, which owns that one connection.
C15_ConcurrentCallersShareHandle ==
  /\ \A name \in DbNames : Cardinality(OpenedClients(name)) <= 1
  /\ \A t \in Tasks, u \in Tasks :
       (tasks[t].pc = "done" /\ tasks[u].pc = "done" /\
          tasks[t].name = tasks[u].name) =>
         /\ tasks[t].h # NoHandle
         /\ tasks[t].h = tasks[u].h
         /\ tasks[t].name \in DOMAIN instances
         /\ instances[tasks[t].name] = tasks[t].h
         /\ OpenedClients(tasks[t].name) = {handles[tasks[t].h].client}

\* C15 witness: two tasks asked for "auth_db" while the registry had no
\* entry for it, and both have returned.
C15_Witness ==
  \E t \in Tasks, u \in Tasks :
    /\ t # u
    /\ tasks[t].pc = "done" /\ tasks[u].pc = "done"
    /\ tasks[t].name = "auth_db" /\ tasks[u].name = "auth_db"
    /\ tasks[t].early /\ tasks[u].early
    /\ tasks[t].h = tasks[u].h

(***************************************************************************)
(* Claims about sessions and the OAuth callbacks, checked under SpecAuth.  *)
(***************************************************************************)
\* The session records of the database the routers use.
SessionDocs == store[<<"auth_db", "sessions">>]

\* The user records.
UserDocs == store[<<"auth_db", "users">>]

\* C19: validity of a session is decided when it is read: /me of the
\* Discord router returns a user only if the store holds a session record
\* of the token's user whose expires_at is later than the current time,
\* and when there is no such record it fails with 401; and no step of any
\* operation removes or changes a session record, expired or not.
C19_SessionCheckedAtReadTime ==
  /\ [](last.op = "get_current_user" =>
          \A token \in last.doc :
            LET unexpired == {x \in SessionDocs :
                               /\ token.kind = "jwt"
                               /\ x["user_id"] = token.sub
                               /\ now < x["expires_at"]}
            IN /\ (last.ok /\ last.returned = "user") => unexpired # {}
               /\ unexpired = {} =>
                    /\ ~last.ok
                    /\ last.exc = "HTTPException"
                    /\ last.status = StatusUnauthorized
                    /\ last.result = {})
  /\ [][SessionDocs \subseteq SessionDocs']_vars

\* C19 witness: /me was asked with a token that verifies while the only
\* session records of its user had expired; it answered 401 and the
\* expired records are still stored.
C19_Witness ==
  /\ last.op = "get_current_user"
  /\ \E token \in last.doc :
       /\ token.kind = "jwt" /\ now < token.exp
       /\ \E x \in SessionDocs :
            x["user_id"] = token.sub /\ x["expires_at"] <= now
       /\ \A x \in SessionDocs : x["expires_at"] <= now
  /\ ~last.ok /\ last.status = StatusUnauthorized
  /\ last.detail = <<NoSessionMsg>>

\* C20: a callback for which the provider returned an access token and a
\* profile ends with a user record of that provider identity stored, a
\* session record of that user stored, the session cookie set and the
\* success response, on a first login and on a repeat login.
C20_CallbackSucceeds ==
  last.op \in {"discord_callback", "github_callback"} =>
    \A input \in last.doc :
      input.provider = "ok" =>
        /\ last.ok
        /\ last.returned = "success"
        /\ \E c \in last.cookie : c.key = "session"
        /\ \E u \in UserDocs :
             /\ IF last.op = "discord_callback"
                THEN "discord_id" \in DOMAIN u /\
                     u["discord_id"] = DiscordProfile.id
                ELSE "github_id" \in DOMAIN u /\
                     u["github_id"] = GithubProfile.id
             /\ \E x \in SessionDocs : x["user_id"] = StrOid(u["_id"])

(***************************************************************************)
(* Claims about the post routes, checked under SpecRoutes.  The store      *)
(* does not fail in SpecRoutes.                                            *)
(***************************************************************************)

\* C21: update_post and delete_post answer 400 "Post ID is required" when
\* called without an id and 404 when the id matches no post, and they
\* answer 500 only when the store has failed, which it never does here.
C21_PostRoutesStandardStatus ==
  last.op \in {"update_post", "delete_post"} =>
    \A id \in last.id :
      /\ id = <<>> =>
           /\ ~last.ok
           /\ last.status = StatusBadRequest
           /\ last.detail = <<"Post ID is required">>
      /\ (ValidOid(id) /\ ~last.hit) =>
           /\ ~last.ok
           /\ last.status = StatusNotFound
      /\ last.status # StatusStoreFailure

\* C24: get_post with the id of a stored post returns that post with its
\* id in string form; get_post without an id on a collection that is not
\* empty returns all stored posts, those of the given type when a type is
\* given.
C24_GetPostReturnsStoredPosts ==
  last.op = "get_post" =>
    \A id \in last.id, input \in last.doc :
      /\ Matches(PostsOf(1), id) =>
           /\ last.ok
           /\ last.result =
                {ToExternal(d) : d \in FindOne(PostsOf(1), ObjectId(id))}
      /\ (id = <<>> /\ PostsOf(1) # {}) =>
           /\ last.ok
           /\ last.result =
                {ToExternal(d) :
                   d \in {p \in PostsOf(1) : input.type = "" \/
                                        p["metadata"]["type"] = input.type}}

\* C25: create_post reports what the store holds: a step that ends with
\* the failure 500 "Failed to create resource" has persisted no post, and a
\* step that has persisted a post ends with the success response that
\* carries the new post's id.
C25_CreatePostMatchesStore ==
  [][last'.op = "create_post" =>
       /\ ~last'.ok => PostsOf(1)' = PostsOf(1)
       /\ PostsOf(1)' # PostsOf(1) =>
            /\ last'.ok
            /\ last'.returned = "success"
            /\ \E r \in last'.result, d \in PostsOf(1)' \ PostsOf(1) :
                 r.id = StrOid(d["_id"])]_vars

(***************************************************************************)
(* Claims about the collection cache, checked under SpecCollections.       *)
(***************************************************************************)
\* The collection handles cached by the database handles: <<handle, name>>.
Cached == {hc \in Handles \X CollNames : hc[2] \in DOMAIN handles[hc[1]].collections}

\* The collection handle cached by handle hc[1] for the name hc[2].
CachedObj(hc) == handles[hc[1]].collections[hc[2]]

\* C22: a live database handle creates at most one collection handle per
\* name: as many collection handles have been created as there are names
\* asked for, different names have different handles, and get_collection
\* with a name asked for before returns the identical cached handle,
\* creates nothing and leaves every cached handle as it was.
C22_OneCollectionHandlePerName ==
  /\ [](/\ collSeq = Cardinality(Cached)
        /\ \A x \in Cached, y \in Cached :
             x # y => CachedObj(x).obj # CachedObj(y).obj
        /\ \A x \in Cached :
             /\ CachedObj(x).name = x[2]
             /\ CachedObj(x).db = handles[x[1]].database)
  /\ [][(last'.op = "get_collection" /\ last'.ok) =>
          LET x == <<last'.h, last'.coll>>
          IN /\ last'.result = {handles'[last'.h].collections[last'.coll]}
             /\ \A y \in Cached : CachedObj(y)' = CachedObj(y)
             /\ x \in Cached => collSeq' = collSeq]_vars

\* C22 witness: get_collection returned a handle that was cached before,
\* not the one created last, on a database handle that has cached the
\* handles of all three names.
C22_Witness ==
  /\ last.op = "get_collection" /\ last.ok
  /\ \E r \in last.result : r.obj < collSeq /\ r.name = last.coll
  /\ DOMAIN handles[last.h].collections = CollNames

(***************************************************************************)
(* Claims about the resource routes, checked under SpecResources.          *)
(***************************************************************************)

\* C23: GET /api/resources with type T returns exactly the stored
\* resources whose type is T, and all stored resources when no type is
\* given.
C23_ResourcesOfType ==
  last.op = "get_resources" =>
    \A input \in last.doc :
      /\ last.ok
      /\ last.result =
           {ToExternal(r) :
              r \in {x \in store[ResourcesKey] : input.type = "" \/
                                       x["type"] = input.type}}

C27_OneUserPerIdentity ==
  \A p \in Providers : Cardinality(ExistingUsers(UserDocs, p)) <= 1

(***************************************************************************)
(* Claims about close(), checked under Spec.                               *)
(***************************************************************************)
\* C28: close() on a handle that is already closed changes nothing, also
\* when a new handle has been registered for its database name since; and
\* close() of a handle changes no other handle, closes no connection but
\* its own, and removes or changes no registry entry of another handle.
C28_CloseRepeatableAndLocal ==
  [][(last'.op = "close" /\ last'.h \in Handles) =>
       LET h == last'.h
       IN /\ ~Live(h) => UNCHANGED <<instances, handles, clients>>
          /\ Len(handles') = Len(handles)
          /\ Len(clients') = Len(clients)
          /\ \A g \in Handles \ {h} : handles'[g] = handles[g]
          /\ \A c \in Clients :
               c # handles[h].client => clients'[c] = clients[c]
          /\ DOMAIN instances' \subseteq DOMAIN instances
          /\ \A n \in DOMAIN instances :
               instances[n] # h =>
                 /\ n \in DOMAIN instances'
                 /\ instances'[n] = instances[n]]_vars

\* C28 witness: close() was called on a stale handle, whose connection
\* (the one __new__ opened with it) is closed, while a newer handle of the
\* same database name is registered and live.
C28_Witness ==
  /\ last.op = "close"
  /\ ~Live(last.h)
  /\ ~clients[last.h].open
  /\ \E n \in DOMAIN instances :
       /\ clients[last.h].db = n
       /\ instances[n] # last.h
       /\ Live(instances[n])
       /\ clients[handles[instances[n]].client].open

====
